---- MODULE Spec2Model ----
(***************************************************************************)
(* Storage failover layer and HTTP handlers of src/server.js: the          *)
(* readiness barrier (dbInitialized), the persistentAvailable flag         *)
(* (mongoConnected), the MongoDB collection, the in-memory fallback buffer *)
(* (inMemoryCommands) and the three storage operations saveCommand,        *)
(* getCommands, clearCommands as the request handlers call them.           *)
(*                                                                         *)
(* Node runs the handlers on one thread: a handler runs without            *)
(* interruption from one await to the next, so every action below is one   *)
(* such run-to-next-await segment.                                         *)
(***************************************************************************)
EXTENDS Integers, Sequences, FiniteSets, TLC

\* ---------------------------------------------------------------- bounds
NSlots == 2
MaxReq == 3
MaxClock == 2
MaxEvents == 1

\* ------------------------------------------------------ program constants
BufferCap == 100
DefaultLimit == 50

Slots == 1..NSlots

VARIABLES
    dbInitialized,      \* let dbInitialized (server.js:20)
    mongoConnected,     \* let mongoConnected (server.js:19)
    inMemoryCommands,   \* let inMemoryCommands (server.js:18), newest first
    collection,         \* the documents of the Command model's collection
    connectPc,          \* position of connectToMongoDB().then(...)
    now,                \* Date.now(), in milliseconds since the model's epoch
    req,                \* the requests in flight, one per slot
    nreq,               \* requests received so far
    nevents,            \* connection events delivered so far
    sent,               \* the response sent last
    lastSave,           \* history: the save that completed last, if no save or clear followed
    savedDone,          \* history: the records whose save has returned
    cleared,            \* history: the records saved before a clear that has returned
    row                 \* history: the clear/list calls made back to back

vars == <<dbInitialized, mongoConnected, inMemoryCommands, collection, connectPc,
          now, req, nreq, nevents, sent, lastSave, savedDone, cleared, row>>

\* ------------------------------------------------------------ JSON values
JStr(s) == [kind |-> "string", s |-> s]
JNum(s) == [kind |-> "number", s |-> s]
JMissing == [kind |-> "undefined", s |-> ""]

\* JavaScript truthiness of a request field: undefined, "" and 0 are falsy.
Truthy(v) ==
    \/ v.kind = "string" /\ v.s # ""
    \/ v.kind = "number" /\ v.s # "0"


\* ------------------------------------------------- records of the history
\* The platform the server runs on: os.platform().
Platform == "linux"

NoResult ==
    [threw |-> FALSE, status |-> "", response |-> "", rule |-> "",
     call |-> [fn |-> "", arg |-> ""], spawned |-> <<>>,
     host |-> [kind |-> "none", code |-> "", text |-> ""],
     fallback |-> [kind |-> "none", code |-> "", text |-> ""],
     unhandled |-> [code |-> "", message |-> ""]]
NoDoc == [rid |-> 0]
NoSave == [rid |-> 0]

\* new Command(commandData): mongoose casts the fields to the schema's types
\* and fills the defaults (timestamp: Date.now, platform: os.platform()); the
\* ObjectId it generates is unique to the document. rid, the number of the
\* request, is the identity of the record it creates, not a stored field.
NewCommand(q) ==
    [id        |-> [fmt |-> "objectid", digits |-> ToString(q.rid)],
     text      |-> q.text.s,
     type      |-> q.type.s,
     timestamp |-> now,
     status    |-> q.result.status,
     response  |-> q.result.response,
     platform  |-> Platform,
     userAgent |-> q.userAgent,
     v         |-> 0,
     rid       |-> q.rid]

\* The schema's validators, run by command.save(): required strings are
\* non-empty, enum fields hold one of their values.
Validates(doc) ==
    /\ doc.text # ""
    /\ doc.type \in {"voice", "text"}
    /\ doc.status \in {"success", "error"}
    /\ doc.response # ""

\* The object literal of the in-memory path: {_id, ...commandData, timestamp}.
MemoryCommand(q) ==
    [id        |-> [fmt |-> "decimal", digits |-> ToString(now)],
     text      |-> q.text.s,
     type      |-> q.type,
     status    |-> q.result.status,
     response  |-> q.result.response,
     userAgent |-> q.userAgent,
     timestamp |-> now,
     rid       |-> q.rid]

Min(a, b) == IF a < b THEN a ELSE b

\* Mutant of Slice: the end index taken as inclusive.
SliceInclusive(seq, n) == SubSeq(seq, 1, Min(n + 1, Len(seq)))

\* Array.prototype.slice(0, n) for n >= 0.
Slice(seq, n) == SubSeq(seq, 1, Min(n, Len(seq)))

\* Mutant of Unshift: the truncation left out.
UnshiftNoTruncate(command, seq) == <<command>> \o seq

\* inMemoryCommands.unshift(command), then the truncation to 100 entries.
Unshift(command, seq) ==
    LET longer == <<command>> \o seq
    IN  IF Len(longer) > BufferCap THEN Slice(longer, BufferCap) ELSE longer

\* .select('-userAgent -__v')
Select(doc) == [f \in (DOMAIN doc) \ {"userAgent", "v"} |-> doc[f]]

Newest(S) == {r \in S : \A o \in S : o.timestamp <= r.timestamp}

\* Command.find().sort({timestamp: -1}).limit(k): every result the query can
\* give; the order among documents of equal timestamp is the server's choice.
RECURSIVE FindSorted(_, _)
FindSorted(S, k) ==
    IF k = 0 \/ S = {} THEN {<<>>}
    ELSE UNION {{<<Select(r)>> \o rest : rest \in FindSorted(S \ {r}, k - 1)} : r \in Newest(S)}

\* parseInt(req.query.limit): the number a decimal string spells, NaN otherwise.
NaN == [nan |-> TRUE, n |-> 0]
ParseRange == 0..(BufferCap + DefaultLimit)
ParseInt(v) ==
    IF v.kind = "string" /\ \E n \in ParseRange : ToString(n) = v.s
    THEN [nan |-> FALSE, n |-> CHOOSE n \in ParseRange : ToString(n) = v.s]
    ELSE NaN

\* parseInt(req.query.limit) || 50: NaN and 0 are falsy.
LimitOf(v) ==
    LET p == ParseInt(v)
    IN  IF p.nan \/ p.n = 0 THEN DefaultLimit ELSE p.n


\* --------------------------------------------------------------- requests
\* The request bodies, headers and queries the model sends.
TextInputs == {JStr("what time is it"), JStr("open"), JStr("asdkjf random text"), JNum("5")}
TypeInputs == {JStr("voice"), JStr("fax"), JMissing}
UserAgentHeaders == {JStr("Mozilla/5.0")}
LimitQueries == {JMissing, JStr("1"), JStr("2")}

\* The command texts: the examples of the README's Available Commands, texts
\* that satisfy several rules, texts whose rule captures nothing, texts of
\* the other branches, texts no rule accepts, and a text that is no string.
ReadmeTexts ==
    {"open google.com", "open youtube.com", "search pizza recipes", "youtube funny cats",
     "what time is it", "what date is it", "weather",
     "open calculator", "open notepad", "open file manager",
     "shutdown in 5 minutes", "restart", "sleep",
     "volume up", "volume down", "mute"}
OtherTexts ==
    {"shutdown settings", "Open WiFi Settings", "search youtube cats", "cpu temperature",
     "open", "search", " Google ", "open .com", "restartopen",
     "reboot", "shutdown", "launch Chrome", "start permission",
     "whatsapp call mom", "whatsapp message john", "show downloads files",
     "system info", "memory", "disk space", "ip address", "laptop battery",
     "system temperature", "increase volume",
     "shutdown now", "shutdown in 30 seconds", "shutdown in 1 minute",
     "Shutdown in 2minutes", "shutdown in 90 seconds", "shutdown in 1 second",
     "asdkjf random text", "hello", "   "}
CommandTexts == {JStr(t) : t \in ReadmeTexts \cup OtherTexts} \cup {JNum("5")}
SourceInputs == {JStr("voice"), JStr("text")}

\* ------------------------------------------------- JavaScript string methods
\* Strings are sequences of characters.
\* s.substring(m - 1, n): empty when the range is.
Sub(s, m, n) ==
    IF m > n \/ m > Len(s) THEN ""
    ELSE SubSeq(s, m, IF n > Len(s) THEN Len(s) ELSE n)
Char(s, i) == Sub(s, i, i)
From(s, i) == Sub(s, i, Len(s))

UpperCase == "ABCDEFGHIJKLMNOPQRSTUVWXYZ"
LowerCase == "abcdefghijklmnopqrstuvwxyz"
Digits == "0123456789"
Letters == UpperCase \o LowerCase
WordChars == Letters \o Digits \o "_"
HostChars == Letters \o Digits \o ".-"
WhiteSpace == " \t\n"
IsIn(c, alphabet) == \E i \in 1..Len(alphabet) : Char(alphabet, i) = c
IndexIn(c, alphabet) == CHOOSE i \in 1..Len(alphabet) : Char(alphabet, i) = c

\* String.prototype.toLowerCase.
LowerChar(c) ==
    IF IsIn(c, UpperCase)
    THEN Char(LowerCase, IndexIn(c, UpperCase))
    ELSE c
RECURSIVE ToLowerCase(_)
ToLowerCase(s) ==
    IF s = "" THEN "" ELSE LowerChar(Char(s, 1)) \o ToLowerCase(From(s, 2))

\* String.prototype.trim.
RECURSIVE TrimStart(_)
TrimStart(s) ==
    IF s # "" /\ IsIn(Char(s, 1), WhiteSpace) THEN TrimStart(From(s, 2)) ELSE s
RECURSIVE TrimEnd(_)
TrimEnd(s) ==
    IF s # "" /\ IsIn(Char(s, Len(s)), WhiteSpace) THEN TrimEnd(Sub(s, 1, Len(s) - 1)) ELSE s
Trim(s) == TrimEnd(TrimStart(s))

\* String.prototype.includes and startsWith.
StartsWith(s, w) == Len(w) <= Len(s) /\ Sub(s, 1, Len(w)) = w
Includes(s, w) == \E i \in 1..(Len(s) + 1) : StartsWith(From(s, i), w)

\* The length of the longest prefix of s made of characters of the alphabet.
RECURSIVE Run(_, _)
Run(s, alphabet) ==
    IF s # "" /\ IsIn(Char(s, 1), alphabet) THEN 1 + Run(From(s, 2), alphabet) ELSE 0

\* cmd.replace(/a|b|.../g, ''): scanning from the left, the first alternative
\* that matches at a position is removed; otherwise the character is kept.
RECURSIVE RemoveAll(_, _)
RemoveAll(s, alternatives) ==
    IF s = "" THEN ""
    ELSE LET hits == {k \in 1..Len(alternatives) : StartsWith(s, alternatives[k])}
         IN IF hits = {}
            THEN Char(s, 1) \o RemoveAll(From(s, 2), alternatives)
            ELSE LET k == CHOOSE h \in hits : \A o \in hits : h <= o
                 IN RemoveAll(From(s, Len(alternatives[k]) + 1), alternatives)

\* parseInt of a run of decimal digits.
DigitValue(c) == IndexIn(c, Digits) - 1
RECURSIVE ParseDigits(_)
ParseDigits(s) ==
    IF s = "" THEN 0
    ELSE 10 * ParseDigits(Sub(s, 1, Len(s) - 1)) + DigitValue(Char(s, Len(s)))

\* --------------------------------------------- the four regular expressions
\* String.prototype.match without the g flag: the leftmost position where the
\* pattern matches, each quantifier greedy. NoMatch stands for null.
NoMatch == [found |-> FALSE, group |-> ""]
Match(group) == [found |-> TRUE, group |-> group]
Least(S) == CHOOSE i \in S : \A j \in S : i <= j
Most(S) == CHOOSE i \in S : \A j \in S : i >= j

\* What follows the first of the words that starts s and the whitespace after
\* it, as a one-element set; empty when no word starts s or no whitespace
\* follows: (?:word1|word2|...)\s+ at the start of s.
AfterWord(s, words) ==
    LET hits == {k \in 1..Len(words) : StartsWith(s, words[k])}
    IN IF hits = {} THEN {}
       ELSE LET rest == From(s, Len(words[Least(hits)]) + 1)
            IN IF Run(rest, WhiteSpace) = 0 THEN {}
               ELSE {From(rest, Run(rest, WhiteSpace) + 1)}

\* /open\s+([a-zA-Z0-9.-]+\.[a-zA-Z]{2,})/ at the start of s: the host run
\* gives characters back until a dot and two letters follow it.
UrlSplits(rest) ==
    {d \in 1..Run(rest, HostChars) :
        /\ Char(rest, d + 1) = "."
        /\ Run(From(rest, d + 2), Letters) >= 2}
UrlAt(s) ==
    {Sub(rest, 1, Most(UrlSplits(rest)) + 1
                     + Run(From(rest, Most(UrlSplits(rest)) + 2), Letters)) :
        rest \in {r \in AfterWord(s, <<"open">>) : UrlSplits(r) # {}}}

\* /(?:open|launch|start)\s+(.+)/ at the start of s: the rest of the line.
RECURSIVE Line(_)
Line(s) == IF s = "" \/ Char(s, 1) = "\n" THEN "" ELSE Char(s, 1) \o Line(From(s, 2))
AppAt(s) ==
    {Line(rest) : rest \in {r \in AfterWord(s, <<"open", "launch", "start">>) : Line(r) # ""}}

\* /(?:message|text)\s+(\w+)/ at the start of s.
ContactAt(s) ==
    {Sub(rest, 1, Run(rest, WordChars)) :
        rest \in {r \in AfterWord(s, <<"message", "text">>) : Run(r, WordChars) >= 1}}

\* /(\d+)\s*(seconds?|minutes?)/ at the start of s: the number and the unit.
TimeAt(s) ==
    LET n == Run(s, Digits)
        rest == From(s, n + 1)
        unit == From(rest, Run(rest, WhiteSpace) + 1)
    IN IF n = 0 THEN {}
       ELSE {[value |-> Sub(s, 1, n), unit |-> u] :
                u \in {w \in {"second", "minute"} : StartsWith(unit, w)}}

\* The match at the leftmost position of the text where the pattern finds one:
\* at[i] is what the pattern finds at position i, as a set of at most one
\* capture.
FirstMatch(at) ==
    LET starts == {i \in DOMAIN at : at[i] # {}}
    IN IF starts = {} THEN NoMatch
       ELSE Match(CHOOSE g \in at[Least(starts)] : TRUE)
UrlMatch(cmd) == FirstMatch([i \in 1..Len(cmd) |-> UrlAt(From(cmd, i))])
AppMatch(cmd) == FirstMatch([i \in 1..Len(cmd) |-> AppAt(From(cmd, i))])
ContactMatch(cmd) == FirstMatch([i \in 1..Len(cmd) |-> ContactAt(From(cmd, i))])
TimeMatch(cmd) == FirstMatch([i \in 1..Len(cmd) |-> TimeAt(From(cmd, i))])

\* ----------------------------------------------- CommandProcessor: the rules
\* The condition of each branch of processCommand's if/else chain, over the
\* lower-cased, trimmed text.
Has(cmd, words) == \E w \in words : Includes(cmd, w)
Satisfies(rule, cmd) ==
    CASE rule = "website" ->
           Includes(cmd, "open") /\ Has(cmd, {".com", ".org", ".net", ".io"})
      [] rule = "search" -> Has(cmd, {"search", "google"})
      [] rule = "youtube" -> Includes(cmd, "youtube")
      [] rule = "time" -> Has(cmd, {"time", "what time"})
      [] rule = "date" -> Has(cmd, {"date", "what date"})
      [] rule = "weather" -> Includes(cmd, "weather")
      [] rule = "calculator" -> Has(cmd, {"calculator", "calc"})
      [] rule = "notepad" -> Has(cmd, {"notepad", "text editor"})
      [] rule = "whatsapp" -> Has(cmd, {"whatsapp", "open whatsapp"})
      [] rule = "files" -> Has(cmd, {"file manager", "explorer", "files"})
      [] rule = "settings" -> Has(cmd, {"settings", "control panel"})
      [] rule = "launch" -> Has(cmd, {"open", "launch", "start"})
      [] rule = "shutdown" -> Includes(cmd, "shutdown")
      [] rule = "restart" -> Has(cmd, {"restart", "reboot"})
      [] rule = "sleep" -> Has(cmd, {"sleep", "hibernate"})
      [] rule = "volume up" -> Has(cmd, {"volume up", "increase volume"})
      [] rule = "volume down" -> Has(cmd, {"volume down", "decrease volume"})
      [] rule = "mute" -> Has(cmd, {"mute", "volume off"})
      [] rule = "system info" ->
           Has(cmd, {"system info", "system information", "computer specs"})
      [] rule = "memory" -> Has(cmd, {"ram", "memory"})
      [] rule = "storage" -> Has(cmd, {"storage", "disk space", "hard drive"})
      [] rule = "cpu" -> Has(cmd, {"cpu", "processor"})
      [] rule = "network" -> Has(cmd, {"network", "ip address", "wifi"})
      [] rule = "battery" ->
           Includes(cmd, "battery") /\ Has(cmd, {"laptop", "computer"})
      [] rule = "temperature" ->
           Includes(cmd, "temperature") /\ Has(cmd, {"cpu", "system"})

\* The rules in the order of the chain.
Rules ==
    <<"website", "search", "youtube", "time", "date", "weather", "calculator", "notepad",
      "whatsapp", "files", "settings", "launch", "shutdown", "restart", "sleep",
      "volume up", "volume down", "mute", "system info", "memory", "storage", "cpu",
      "network", "battery", "temperature">>

\* Mutant of Classify: the system control rules are tried before the
\* settings and launch rules.
ClassifySystemControlFirst(cmd) ==
    IF Satisfies("website", cmd) THEN "website"
    ELSE IF Satisfies("search", cmd) THEN "search"
    ELSE IF Satisfies("youtube", cmd) THEN "youtube"
    ELSE IF Satisfies("time", cmd) THEN "time"
    ELSE IF Satisfies("date", cmd) THEN "date"
    ELSE IF Satisfies("weather", cmd) THEN "weather"
    ELSE IF Satisfies("calculator", cmd) THEN "calculator"
    ELSE IF Satisfies("notepad", cmd) THEN "notepad"
    ELSE IF Satisfies("whatsapp", cmd) THEN "whatsapp"
    ELSE IF Satisfies("files", cmd) THEN "files"
    ELSE IF Satisfies("shutdown", cmd) THEN "shutdown"
    ELSE IF Satisfies("restart", cmd) THEN "restart"
    ELSE IF Satisfies("sleep", cmd) THEN "sleep"
    ELSE IF Satisfies("settings", cmd) THEN "settings"
    ELSE IF Satisfies("launch", cmd) THEN "launch"
    ELSE IF Satisfies("volume up", cmd) THEN "volume up"
    ELSE IF Satisfies("volume down", cmd) THEN "volume down"
    ELSE IF Satisfies("mute", cmd) THEN "mute"
    ELSE IF Satisfies("system info", cmd) THEN "system info"
    ELSE IF Satisfies("memory", cmd) THEN "memory"
    ELSE IF Satisfies("storage", cmd) THEN "storage"
    ELSE IF Satisfies("cpu", cmd) THEN "cpu"
    ELSE IF Satisfies("network", cmd) THEN "network"
    ELSE IF Satisfies("battery", cmd) THEN "battery"
    ELSE IF Satisfies("temperature", cmd) THEN "temperature"
    ELSE "unrecognized"

\* The if / else if chain: the branch that runs. "unrecognized" is the
\* final else.
Classify(cmd) ==
    IF Satisfies("website", cmd) THEN "website"
    ELSE IF Satisfies("search", cmd) THEN "search"
    ELSE IF Satisfies("youtube", cmd) THEN "youtube"
    ELSE IF Satisfies("time", cmd) THEN "time"
    ELSE IF Satisfies("date", cmd) THEN "date"
    ELSE IF Satisfies("weather", cmd) THEN "weather"
    ELSE IF Satisfies("calculator", cmd) THEN "calculator"
    ELSE IF Satisfies("notepad", cmd) THEN "notepad"
    ELSE IF Satisfies("whatsapp", cmd) THEN "whatsapp"
    ELSE IF Satisfies("files", cmd) THEN "files"
    ELSE IF Satisfies("settings", cmd) THEN "settings"
    ELSE IF Satisfies("launch", cmd) THEN "launch"
    ELSE IF Satisfies("shutdown", cmd) THEN "shutdown"
    ELSE IF Satisfies("restart", cmd) THEN "restart"
    ELSE IF Satisfies("sleep", cmd) THEN "sleep"
    ELSE IF Satisfies("volume up", cmd) THEN "volume up"
    ELSE IF Satisfies("volume down", cmd) THEN "volume down"
    ELSE IF Satisfies("mute", cmd) THEN "mute"
    ELSE IF Satisfies("system info", cmd) THEN "system info"
    ELSE IF Satisfies("memory", cmd) THEN "memory"
    ELSE IF Satisfies("storage", cmd) THEN "storage"
    ELSE IF Satisfies("cpu", cmd) THEN "cpu"
    ELSE IF Satisfies("network", cmd) THEN "network"
    ELSE IF Satisfies("battery", cmd) THEN "battery"
    ELSE IF Satisfies("temperature", cmd) THEN "temperature"
    ELSE "unrecognized"

\* encodeURIComponent over ASCII: letters, digits and - _ . ! ~ * ' ( ) stay,
\* every other character becomes % and its code in two hexadecimal digits.
AsciiFrom32 == " !\"#$%&'()*+,-./0123456789:;<=>?@ABCDEFGHIJKLMNOPQRSTUVWXYZ[\\]^_"
AsciiFrom97 == "abcdefghijklmnopqrstuvwxyz{|}~"
Unreserved == Letters \o Digits \o "-_.!~*'()"
HexDigits == "0123456789ABCDEF"
CharCode(c) ==
    CASE c = "\t" -> 9
      [] c = "\n" -> 10
      [] IsIn(c, AsciiFrom32) -> 31 + IndexIn(c, AsciiFrom32)
      [] IsIn(c, AsciiFrom97) -> 96 + IndexIn(c, AsciiFrom97)
EncodeChar(c) ==
    IF IsIn(c, Unreserved) THEN c
    ELSE "%" \o Char(HexDigits, (CharCode(c) \div 16) + 1)
             \o Char(HexDigits, (CharCode(c) % 16) + 1)
RECURSIVE EncodeURIComponent(_)
EncodeURIComponent(s) ==
    IF s = "" THEN "" ELSE EncodeChar(Char(s, 1)) \o EncodeURIComponent(From(s, 2))

\* ------------------------------------------- CommandProcessor: the executors
\* An executor call: the method of CommandProcessor and its argument.
Call(fn, arg) == [fn |-> fn, arg |-> arg]
NoCall == Call("", "")

\* The shell command each executor builds on this platform (the default:
\* branch of its switch), and the tables it looks its argument up in.
LinuxApps ==
    [calculator |-> "gnome-calculator || kcalc || xcalc",
     notepad |-> "echo \"Text editor not available in this environment\"",
     filemanager |-> "echo \"File manager not available in this environment\"",
     whatsapp |-> "xdg-open https://web.whatsapp.com"]
LinuxPaths ==
    [downloads |-> "~/Downloads", documents |-> "~/Documents", desktop |-> "~/Desktop",
     pictures |-> "~/Pictures", music |-> "~/Music"]
LinuxSettings ==
    [main |-> "gnome-control-center || systemsettings5 || unity-control-center",
     network |-> "gnome-control-center network || systemsettings5 kcm_networkmanagement",
     display |-> "gnome-control-center display || systemsettings5 kcm_displayconfiguration",
     sound |-> "gnome-control-center sound || systemsettings5 kcm_pulseaudio",
     bluetooth |-> "gnome-control-center bluetooth || systemsettings5 kcm_bluetooth"]
LinuxAppMappings ==
    [chrome |-> "google-chrome || chromium-browser", firefox |-> "firefox",
     gedit |-> "gedit", calculator |-> "gnome-calculator || kcalc",
     libreoffice |-> "libreoffice", writer |-> "libreoffice --writer",
     calc |-> "libreoffice --calc", impress |-> "libreoffice --impress",
     thunderbird |-> "thunderbird", discord |-> "discord", spotify |-> "spotify",
     steam |-> "steam", vscode |-> "code", gimp |-> "gimp", inkscape |-> "inkscape"]
LinuxVolume ==
    [up |-> "amixer -D pulse sset Master 10%+", down |-> "amixer -D pulse sset Master 10%-",
     mute |-> "amixer -D pulse sset Master mute"]
LinuxInfo ==
    [getSystemInfo |-> "lsb_release -a 2>/dev/null || cat /etc/os-release",
     getMemoryInfo |-> "sudo dmidecode --type memory 2>/dev/null | grep -E \"Size|Speed|Type:\" || free -h",
     getStorageInfo |-> "df -h --total && lsblk",
     getCPUInfo |-> "lscpu",
     getNetworkInfo |-> "ifconfig || ip addr show",
     getBatteryInfo |-> "upower -i /org/freedesktop/UPower/devices/battery_BAT0 2>/dev/null || cat /sys/class/power_supply/BAT*/capacity 2>/dev/null",
     getTemperatureInfo |-> "sensors 2>/dev/null || cat /sys/class/thermal/thermal_zone*/temp 2>/dev/null"]
Lookup(table, key, default) == IF key \in DOMAIN table THEN table[key] ELSE default
FullUrl(url) == IF StartsWith(url, "http") THEN url ELSE "https://" \o url
Ceil60(seconds) == (seconds + 59) \div 60

ShellCommand(call) ==
    CASE call.fn = "openWebsite" -> "xdg-open \"" \o FullUrl(call.arg) \o "\""
      [] call.fn = "openApplication" -> Lookup(LinuxApps, call.arg, "")
      [] call.fn = "openSpecificApplication" ->
           Lookup(LinuxAppMappings, ToLowerCase(call.arg), call.arg)
      [] call.fn = "openFileLocation" ->
           "xdg-open \"" \o Lookup(LinuxPaths, call.arg, LinuxPaths.downloads) \o "\""
      [] call.fn = "openSettings" -> Lookup(LinuxSettings, call.arg, LinuxSettings.main)
      [] call.fn = "openWhatsAppCall" ->
           "xdg-open whatsapp://call?phone=" \o EncodeURIComponent(call.arg)
      [] call.fn = "openWhatsAppMessage" ->
           "xdg-open whatsapp://send?phone=" \o EncodeURIComponent(call.arg)
      [] call.fn = "systemShutdown" ->
           "sudo shutdown -h +" \o ToString(Ceil60(ParseDigits(call.arg)))
      [] call.fn = "systemRestart" -> "sudo reboot"
      [] call.fn = "systemSleep" -> "systemctl suspend"
      [] call.fn = "adjustVolume" -> Lookup(LinuxVolume, call.arg, "")
      [] call.fn \in DOMAIN LinuxInfo -> LinuxInfo[call.fn]

\* The message of the Error an executor rejects with in place of the
\* child's error when the child exited with code 127.
NotFoundMessage(call) ==
    CASE call.fn = "openWebsite" ->
           "Web browser not found. Please ensure a web browser is installed and accessible."
      [] call.fn \in {"openApplication", "openSpecificApplication"} ->
           "Application \"" \o call.arg \o "\" not found or not installed. Please ensure it's installed and in your system's PATH."
      [] call.fn = "openFileLocation" ->
           "File manager not found or not installed. Please ensure a file manager is installed and accessible."
      [] call.fn = "openSettings" ->
           "Settings application not found. Please ensure system settings are accessible."
      [] call.fn = "systemShutdown" ->
           "Shutdown command not available or requires administrator privileges."
      [] call.fn = "systemRestart" ->
           "Restart command not available or requires administrator privileges."
      [] call.fn = "systemSleep" ->
           "Sleep command not available or requires administrator privileges."
      [] call.fn = "adjustVolume" ->
           "Volume control not available. Please ensure audio system is properly configured."

\* ------------------------------------------ CommandProcessor: the branches
\* What the branch of a rule does with the text: the executor it awaits, if
\* any, and the response it sets once the executor has resolved. A branch
\* whose pattern captures nothing calls nothing and leaves response = ''.
Plan(call, response) == [call |-> call, response |-> response, status |-> "success"]
GuidanceMessage ==
    "Command not recognized. Try: \"open google.com\", \"search weather\", \"open calculator\", or \"what time is it\""

\* Mutant of DefaultCase: status is left at 'success'.
DefaultCaseSucceeds == Plan(NoCall, GuidanceMessage)

\* The final else: status = 'error' and the guidance message.
DefaultCase == [call |-> NoCall, response |-> GuidanceMessage, status |-> "error"]

\* Mutant of ShutdownSeconds: minutes taken as seconds.
ShutdownSecondsNoMinutes(cmd) ==
    LET timeMatch == TimeMatch(cmd)
    IN IF ~timeMatch.found THEN 60
       ELSE ParseDigits(timeMatch.group.value)

\* The duration the shutdown branch computes, in seconds.
ShutdownSeconds(cmd) ==
    LET timeMatch == TimeMatch(cmd)
    IN IF ~timeMatch.found THEN 60
       ELSE IF StartsWith(timeMatch.group.unit, "minute")
            THEN ParseDigits(timeMatch.group.value) * 60
            ELSE ParseDigits(timeMatch.group.value)

Handle(rule, cmd) ==
    CASE rule = "website" ->
           LET urlMatch == UrlMatch(cmd)
           IN IF urlMatch.found
              THEN Plan(Call("openWebsite", urlMatch.group), "Opening " \o urlMatch.group)
              ELSE Plan(NoCall, "")
      [] rule = "search" ->
           LET searchTerm == Trim(RemoveAll(cmd, <<"search", "google">>))
           IN IF searchTerm # ""
              THEN Plan(Call("openWebsite",
                             "google.com/search?q=" \o EncodeURIComponent(searchTerm)),
                        "Searching Google for: " \o searchTerm)
              ELSE Plan(NoCall, "")
      [] rule = "youtube" ->
           LET searchTerm == Trim(RemoveAll(cmd, <<"youtube", "search", "on">>))
           IN IF searchTerm # ""
              THEN Plan(Call("openWebsite",
                             "youtube.com/results?search_query=" \o EncodeURIComponent(searchTerm)),
                        "Searching YouTube for: " \o searchTerm)
              ELSE Plan(Call("openWebsite", "youtube.com"), "Opening YouTube")
      [] rule = "time" -> Plan(NoCall, "Current time: ...")
      [] rule = "date" -> Plan(NoCall, "Current date: ...")
      [] rule = "weather" -> Plan(Call("openWebsite", "weather.com"), "Opening weather information")
      [] rule = "calculator" -> Plan(Call("openApplication", "calculator"), "Opening calculator")
      [] rule = "notepad" -> Plan(Call("openApplication", "notepad"), "Opening text editor")
      [] rule = "whatsapp" ->
           IF Includes(cmd, "call") /\ Has(cmd, {"mom", "dad", "friend"})
           THEN LET contact == IF Includes(cmd, "mom") THEN "Mom"
                               ELSE IF Includes(cmd, "dad") THEN "Dad" ELSE "Friend"
                IN Plan(Call("openWhatsAppCall", contact),
                        "Calling " \o contact \o " on WhatsApp")
           ELSE IF Has(cmd, {"message", "text"})
           THEN LET contactMatch == ContactMatch(cmd)
                    contact == IF contactMatch.found THEN contactMatch.group ELSE "contact"
                IN Plan(Call("openWhatsAppMessage", contact),
                        "Opening WhatsApp chat with " \o contact)
           ELSE Plan(Call("openApplication", "whatsapp"), "Opening WhatsApp")
      [] rule = "files" ->
           IF Includes(cmd, "downloads")
           THEN Plan(Call("openFileLocation", "downloads"), "Opening Downloads folder")
           ELSE IF Includes(cmd, "documents")
           THEN Plan(Call("openFileLocation", "documents"), "Opening Documents folder")
           ELSE IF Includes(cmd, "desktop")
           THEN Plan(Call("openFileLocation", "desktop"), "Opening Desktop folder")
           ELSE Plan(Call("openApplication", "filemanager"), "Opening File Manager")
      [] rule = "settings" ->
           IF Has(cmd, {"wifi", "network"})
           THEN Plan(Call("openSettings", "network"), "Opening Network Settings")
           ELSE IF Has(cmd, {"display", "screen"})
           THEN Plan(Call("openSettings", "display"), "Opening Display Settings")
           ELSE IF Has(cmd, {"sound", "audio"})
           THEN Plan(Call("openSettings", "sound"), "Opening Sound Settings")
           ELSE IF Includes(cmd, "bluetooth")
           THEN Plan(Call("openSettings", "bluetooth"), "Opening Bluetooth Settings")
           ELSE Plan(Call("openSettings", "main"), "Opening System Settings")
      [] rule = "launch" ->
           LET appMatch == AppMatch(cmd)
           IN IF appMatch.found
              THEN Plan(Call("openSpecificApplication", Trim(appMatch.group)),
                        "Opening " \o Trim(appMatch.group))
              ELSE Plan(NoCall, "")
      [] rule = "shutdown" ->
           Plan(Call("systemShutdown", ToString(ShutdownSeconds(cmd))),
                "System will shutdown in " \o ToString(ShutdownSeconds(cmd)) \o " seconds")
      [] rule = "restart" -> Plan(Call("systemRestart", ""), "System restart initiated")
      [] rule = "sleep" -> Plan(Call("systemSleep", ""), "System going to sleep")
      [] rule = "volume up" -> Plan(Call("adjustVolume", "up"), "Volume increased")
      [] rule = "volume down" -> Plan(Call("adjustVolume", "down"), "Volume decreased")
      [] rule = "mute" -> Plan(Call("adjustVolume", "mute"), "Volume muted")
      [] rule = "system info" -> Plan(Call("getSystemInfo", ""), "")
      [] rule = "memory" -> Plan(Call("getMemoryInfo", ""), "")
      [] rule = "storage" -> Plan(Call("getStorageInfo", ""), "")
      [] rule = "cpu" -> Plan(Call("getCPUInfo", ""), "")
      [] rule = "network" -> Plan(Call("getNetworkInfo", ""), "")
      [] rule = "battery" -> Plan(Call("getBatteryInfo", ""), "")
      [] rule = "temperature" -> Plan(Call("getTemperatureInfo", ""), "")
      [] rule = "unrecognized" -> DefaultCase

\* --------------------------------------------- the host: one child process
\* What child_process.exec reports for one command: success with the child's
\* output, a non-zero exit code with the child's stderr, a child ended by a
\* signal (the 10 s timeout of executeCommand included), or a shell that
\* could not be spawned.
HostOk(stdout) == [kind |-> "ok", code |-> "0", text |-> stdout]
HostExit(code, stderr) == [kind |-> "exit", code |-> code, text |-> stderr]
HostKilled == [kind |-> "killed", code |-> "null", text |-> ""]
HostSpawn(errno) == [kind |-> "spawn", code |-> errno, text |-> "spawn /bin/sh " \o errno]
NoHost == [kind |-> "none", code |-> "", text |-> ""]
HostOutcomes ==
    {HostOk("..."), HostOk("\n"),
     HostExit("127", "/bin/sh: 1: not found"),
     HostExit("126", "/bin/sh: 1: Permission denied"),
     HostExit("1", "permission denied"),
     HostKilled,
     HostSpawn("ENOENT")}

\* The error exec hands to its callback: code is the exit code or the errno
\* name, message quotes the command and the child's stderr.
NoError == [code |-> "", message |-> ""]
ExecError(command, host) ==
    [code |-> host.code,
     message |-> IF host.kind = "spawn" THEN host.text
                 ELSE "Command failed: " \o command \o "\n" \o host.text]
NewError(message) == [code |-> "", message |-> message]

\* The result of awaiting an executor: resolved with a value or rejected
\* with an error, the commands it spawned, and the error of a promise it
\* left behind that rejects with nothing awaiting or catching it.
Resolved(value, spawned) ==
    [rejected |-> FALSE, error |-> NoError, value |-> value, spawned |-> spawned,
     unhandled |-> NoError]
Rejected(error, spawned) ==
    [rejected |-> TRUE, error |-> error, value |-> "", spawned |-> spawned,
     unhandled |-> NoError]

\* getSystemInfo .. getTemperatureInfo: each catches the rejection of
\* executeCommand itself and always resolves with a string.
InfoText(fn, host) ==
    LET failed == host.kind # "ok"
        blank == Trim(host.text) = ""
    IN CASE fn = "getSystemInfo" ->
              "System Information: ... OS Details: "
                  \o (IF failed THEN Platform \o " x64" ELSE host.text)
         [] fn = "getMemoryInfo" ->
              "Memory Information: ... Details: "
                  \o (IF failed THEN "Detailed memory info not available" ELSE host.text)
         [] fn = "getStorageInfo" ->
              "Storage Information:\n"
                  \o (IF failed THEN "Storage information not available" ELSE host.text)
         [] fn = "getCPUInfo" ->
              "CPU Information: ... Details: "
                  \o (IF failed THEN "Detailed CPU info not available" ELSE host.text)
         [] fn = "getNetworkInfo" ->
              "Network Information:\n"
                  \o (IF failed THEN "\nAdditional network details not available"
                      ELSE "\nDetails: " \o host.text)
         [] fn = "getBatteryInfo" ->
              IF failed THEN "Battery: Information not available"
              ELSE IF blank
              THEN "Battery: Not available (Desktop computer or battery info inaccessible)"
              ELSE "Battery Information:\n" \o host.text
         [] fn = "getTemperatureInfo" ->
              IF failed THEN "Temperature: Information not available"
              ELSE IF blank
              THEN "Temperature: Sensors not available or require additional permissions"
              ELSE "Temperature Information:\n" \o host.text

\* An executor that is one exec in a promise (openWebsite, openApplication,
\* systemShutdown, ...): resolved when the child succeeds, rejected with a
\* new Error for exit code 127 and with exec's error otherwise.
Spawn(call, host) ==
    LET command == ShellCommand(call)
    IN IF host.kind = "ok" THEN Resolved("", <<command>>)
       ELSE IF host.code = "127"
       THEN Rejected(NewError(NotFoundMessage(call)), <<command>>)
       ELSE Rejected(ExecError(command, host), <<command>>)

\* One executor awaited by processCommand, the child process ending as host.
\* openWhatsAppCall and openWhatsAppMessage, when their child fails, call
\* openWebsite('web.whatsapp.com') without awaiting it and resolve: the
\* child of that call ends as fallback, and its rejection is nobody's.
Settle(call, host, fallback) ==
    LET command == ShellCommand(call)
    IN CASE call.fn \in DOMAIN LinuxInfo ->
              Resolved(InfoText(call.fn, host), <<command>>)
         [] call.fn \in {"openWhatsAppCall", "openWhatsAppMessage"} ->
              IF host.kind = "ok" THEN Resolved("", <<command>>)
              ELSE LET web == Spawn(Call("openWebsite", "web.whatsapp.com"), fallback)
                   IN [Resolved("", <<command>> \o web.spawned)
                          EXCEPT !.unhandled = web.error]
         [] call.fn = "openApplication" /\ command = "" ->
              Rejected(NewError("Application \"" \o call.arg
                                \o "\" not available on this platform"), <<>>)
         [] call.fn = "adjustVolume" /\ command = "" ->
              Rejected(NewError("Volume control not available on this platform"), <<>>)
         [] OTHER -> Spawn(call, host)

\* The catch block of processCommand: the response for a caught error.
NotFoundResponse ==
    "Application not found or not installed. Please ensure the requested application is installed and accessible."
UnavailableResponse ==
    "Command not available on this system. This feature may require additional software installation."
PermissionResponse ==
    "Permission denied. This command may require administrator privileges."
Catch(error) ==
    IF error.code = "127" THEN NotFoundResponse
    ELSE IF Includes(error.message, "ENOENT") THEN UnavailableResponse
    ELSE IF Includes(error.message, "permission") THEN PermissionResponse
    ELSE "Error executing command: " \o error.message

\* What processCommand returns, or that it threw: the Outcome {status,
\* response} with the rule that ran, the executor called, the commands
\* spawned, the way the child (and the child of a fallback) ended, and the
\* rejection left unhandled.
Outcome(status, response, rule, call, settled, host, fallback) ==
    [threw |-> FALSE, status |-> status, response |-> response, rule |-> rule,
     call |-> call, spawned |-> settled.spawned, host |-> host,
     fallback |-> fallback, unhandled |-> settled.unhandled]
Threw ==
    [threw |-> TRUE, status |-> "", response |-> "", rule |-> "",
     call |-> NoCall, spawned |-> <<>>, host |-> NoHost,
     fallback |-> NoHost, unhandled |-> NoError]

\* CommandProcessor.processCommand: every Outcome the host allows. A text
\* that is no string has no toLowerCase: the first statement, outside the
\* try block, throws.
ProcessCommand(text) ==
    IF text.kind # "string" THEN {Threw}
    ELSE LET cmd == Trim(ToLowerCase(text.s))
             rule == Classify(cmd)
             plan == Handle(rule, cmd)
             Fallbacks(host) ==
                 IF /\ plan.call.fn \in {"openWhatsAppCall", "openWhatsAppMessage"}
                    /\ host.kind # "ok"
                 THEN HostOutcomes ELSE {NoHost}
             Settled(host, fallback) ==
                 LET settled == Settle(plan.call, host, fallback)
                 IN IF settled.rejected
                    THEN Outcome("error", Catch(settled.error), rule, plan.call,
                                 settled, host, fallback)
                    ELSE Outcome("success",
                                 IF plan.call.fn \in DOMAIN LinuxInfo
                                 THEN settled.value ELSE plan.response,
                                 rule, plan.call, settled, host, fallback)
         IN IF plan.call = NoCall
            THEN {Outcome(plan.status, plan.response, rule, NoCall,
                          Resolved("", <<>>), NoHost, NoHost)}
            ELSE UNION {{Settled(host, fallback) : fallback \in Fallbacks(host)} :
                           host \in HostOutcomes}

\* processCommand on each text the model sends, computed once.
Outcomes == [text \in TextInputs \cup CommandTexts |-> ProcessCommand(text)]

NoBody == [none |-> TRUE]

\* A request slot: the handler's locals (text, type, userAgent, limit, result,
\* the document under save), its position, and what the history fields
\* remember of the moment it called the storage layer.
Idle ==
    [pc |-> "idle", op |-> "none",
     text |-> JMissing, type |-> JMissing, userAgent |-> "", query |-> JMissing,
     limit |-> 0, result |-> NoResult, doc |-> NoDoc,
     rid |-> 0, expect |-> NoSave, banned |-> {}, pre |-> {}, solo |-> TRUE]

\* A new request takes the first free slot.
Free(s) == req[s].pc = "idle" /\ \A t \in 1..(s - 1) : req[t].pc # "idle"

\* A storage call is in flight from its call to its return.
InFlight(q) == q.pc \in {"wait", "await"}

OthersInFlight(s) == \E o \in Slots \ {s} : InFlight(req[o])

\* What a step of slot s does to the history fields of the other requests: a
\* call that starts while they are in flight overlaps them; a save or clear
\* that returns ends the "next list" of the save before it.
Other(o, starts, completes) ==
    LET a == IF starts /\ InFlight(o) THEN [o EXCEPT !.solo = FALSE] ELSE o
    IN  IF completes THEN [a EXCEPT !.expect = NoSave] ELSE a

SetReq(s, mine, starts, completes) ==
    req' = [t \in Slots |-> IF t = s THEN mine ELSE Other(req[t], starts, completes)]

\* The handler's answer, res.status(code).json(body) (list: the body of GET
\* /api/history), which ends the request. via tells what served it: "mongo",
\* "memory" (mongoConnected was false) or "fallback" (the store operation
\* failed and the same call went on in memory).
Answer(q, code, body, list, via) ==
    [op |-> q.op, rid |-> q.rid, http |-> code, body |-> body, list |-> list, via |-> via,
     result |-> q.result, query |-> q.query, limit |-> q.limit,
     expect |-> q.expect, banned |-> q.banned]

Reply(s, answer, starts, completes) ==
    /\ sent' = answer
    /\ SetReq(s, Idle, starts, completes)

NoAnswer == Answer(Idle, 0, NoBody, <<>>, "none")

\* The calls made back to back, as far as they spell clear, list, clear, list.
RowPush(q, entry) ==
    LET r == Append(row, entry)
        fits == /\ Len(r) <= 4
                /\ \A i \in 1..Len(r) : (r[i] = "clear") <=> (i % 2 = 1)
    IN  IF ~q.solo THEN <<>>
        ELSE IF fits THEN r
        ELSE IF entry = "clear" THEN <<entry>>
        ELSE <<>>


\* ---------------------------------------------------------- initial state
Init ==
    /\ dbInitialized = FALSE
    /\ mongoConnected = FALSE
    /\ inMemoryCommands = <<>>
    /\ collection = {}
    /\ connectPc = "connecting"
    /\ now = 1
    /\ req = [s \in Slots |-> Idle]
    /\ nreq = 0
    /\ nevents = 0
    /\ sent = NoAnswer
    /\ lastSave = NoSave
    /\ savedDone = {}
    /\ cleared = {}
    /\ row = <<>>

histVars == <<lastSave, savedDone, cleared, row>>
storeVars == <<mongoConnected, inMemoryCommands, collection>>
reqVars == <<req, nreq, sent>>

\* ------------------------------------------------ connection and the clock
\* connectToMongoDB: mongoose.connect resolved (the 'connected' event has set
\* the same flag on its way).
ConnectResolve ==
    /\ connectPc = "connecting"
    /\ mongoConnected' = TRUE
    /\ connectPc' = "connected"
    /\ UNCHANGED <<dbInitialized, inMemoryCommands, collection, now, nevents, reqVars, histVars>>

\* connectToMongoDB: mongoose.connect rejected, at the latest after the
\* 5 second server selection timeout; the catch block returns false.
ConnectReject ==
    /\ connectPc = "connecting"
    /\ mongoConnected' = FALSE
    /\ connectPc' = "unreachable"
    /\ UNCHANGED <<dbInitialized, inMemoryCommands, collection, now, nevents, reqVars, histVars>>

\* Mutant of InitDone: dbInitialized set only when the connection succeeded.
InitDoneOnSuccess ==
    /\ connectPc = "connected"
    /\ dbInitialized' = TRUE
    /\ connectPc' = "up"
    /\ UNCHANGED <<mongoConnected, inMemoryCommands, collection, now, nevents, req, nreq,
                   sent, lastSave, savedDone, cleared, row>>

\* connectToMongoDB().then(() => { dbInitialized = true }): the promise
\* resolves with true or false, never rejects.
InitDone ==
    /\ connectPc \in {"connected", "unreachable"}
    /\ dbInitialized' = TRUE
    /\ connectPc' = IF connectPc = "connected" THEN "up" ELSE "down"
    /\ UNCHANGED <<storeVars, now, nevents, reqVars, histVars>>

\* mongoose.connection.on('error')
OnError ==
    /\ nevents < MaxEvents
    /\ nevents' = nevents + 1
    /\ mongoConnected' = FALSE
    /\ row' = <<>>
    /\ UNCHANGED <<dbInitialized, inMemoryCommands, collection, connectPc, now, reqVars,
                   lastSave, savedDone, cleared>>

\* Mutant of OnConnected: the regain moves the buffered records into the
\* collection.
OnConnectedMigrates ==
    /\ nevents < MaxEvents
    /\ connectPc \in {"connected", "up"}
    /\ nevents' = nevents + 1
    /\ mongoConnected' = TRUE
    /\ collection' = collection \cup {inMemoryCommands[i] : i \in 1..Len(inMemoryCommands)}
    /\ inMemoryCommands' = <<>>
    /\ row' = <<>>
    /\ UNCHANGED <<dbInitialized, connectPc, now, reqVars, lastSave, savedDone, cleared>>

\* mongoose.connection.on('connected'): the driver reconnects a connection
\* that was once established; a failed first connection is not retried.
OnConnected ==
    /\ nevents < MaxEvents
    /\ connectPc \in {"connected", "up"}
    /\ nevents' = nevents + 1
    /\ mongoConnected' = TRUE
    /\ row' = <<>>
    /\ UNCHANGED <<dbInitialized, inMemoryCommands, collection, connectPc, now, reqVars,
                   lastSave, savedDone, cleared>>

\* The clock moves on by a millisecond.
Tick ==
    /\ now < MaxClock
    /\ now' = now + 1
    /\ UNCHANGED <<dbInitialized, storeVars, connectPc, nevents, reqVars, histVars>>


\* ------------------------------------------------------------ saveCommand
\* Mutant of MemorySave: the new record overwrites the head of the buffer,
\* as a write of a buffer read before the await would.
MemorySaveOverwrites(s, q, starts, via) ==
    LET command == MemoryCommand(q)
        body == [id |-> command.id, response |-> q.result.response,
                 status |-> q.result.status, timestamp |-> command.timestamp]
    IN  /\ inMemoryCommands' = <<command>> \o SubSeq(inMemoryCommands, 2, Len(inMemoryCommands))
        /\ Reply(s, Answer(q, 200, body, <<>>, via), starts, TRUE)
        /\ lastSave' = [rid |-> q.rid, text |-> command.text, status |-> command.status,
                        response |-> command.response, where |-> "memory", newest |-> TRUE]
        /\ savedDone' = savedDone \cup {q.rid}
        /\ row' = <<>>
        /\ UNCHANGED <<collection, cleared>>

\* The in-memory path of saveCommand (unshift, truncate, return command),
\* then the handler's res.json({id, response, status, timestamp}).
MemorySave(s, q, starts, via) ==
    LET command == MemoryCommand(q)
        body == [id |-> command.id, response |-> q.result.response,
                 status |-> q.result.status, timestamp |-> command.timestamp]
    IN  /\ inMemoryCommands' = Unshift(command, inMemoryCommands)
        /\ Reply(s, Answer(q, 200, body, <<>>, via), starts, TRUE)
        /\ lastSave' = [rid |-> q.rid, text |-> command.text, status |-> command.status,
                        response |-> command.response, where |-> "memory", newest |-> TRUE]
        /\ savedDone' = savedDone \cup {q.rid}
        /\ row' = <<>>
        /\ UNCHANGED <<collection, cleared>>

\* saveCommand past the readiness wait: with mongoConnected, new
\* Command(commandData) and await command.save(); else the in-memory path.
SaveBody(s, q, starts) ==
    IF mongoConnected
    THEN /\ SetReq(s, [q EXCEPT !.pc = "await", !.doc = NewCommand(q)], starts, FALSE)
         /\ UNCHANGED <<sent, storeVars, histVars>>
    ELSE /\ MemorySave(s, q, starts, "memory")
         /\ UNCHANGED mongoConnected

\* ------------------------------------------------------------ getCommands
\* return inMemoryCommands.slice(0, limit), then res.json(commands).
ListFromMemory(s, q, starts, via) ==
    LET l == Slice(inMemoryCommands, q.limit)
    IN  /\ Reply(s, Answer(q, 200, NoBody, l, via), starts, FALSE)
        /\ row' = RowPush(q, IF Len(l) = 0 THEN "list-empty" ELSE "list-some")
        /\ UNCHANGED <<lastSave, savedDone, cleared>>

GetBody(s, q, starts) ==
    IF mongoConnected
    THEN /\ SetReq(s, [q EXCEPT !.pc = "await"], starts, FALSE)
         /\ UNCHANGED <<sent, storeVars, histVars>>
    ELSE /\ ListFromMemory(s, q, starts, "memory")
         /\ UNCHANGED storeVars

\* ---------------------------------------------------------- clearCommands
\* inMemoryCommands = [], then res.json({message}).
ClearMemory(s, q, starts, via) ==
    /\ inMemoryCommands' = <<>>
    /\ Reply(s, Answer(q, 200, [message |-> "History cleared successfully"], <<>>, via),
             starts, TRUE)
    /\ lastSave' = NoSave
    /\ cleared' = cleared \cup q.pre
    /\ row' = RowPush(q, "clear")
    /\ UNCHANGED <<collection, savedDone>>

ClearBody(s, q, starts) ==
    IF mongoConnected
    THEN /\ SetReq(s, [q EXCEPT !.pc = "await"], starts, FALSE)
         /\ UNCHANGED <<sent, storeVars, histVars>>
    ELSE /\ ClearMemory(s, q, starts, "memory")
         /\ UNCHANGED mongoConnected

\* ------------------------------------------------------ readiness barrier
\* What a storage function does past its readiness wait.
Proceed(s, q, starts) ==
    CASE q.op = "execute" -> SaveBody(s, q, starts)
      [] q.op = "history" -> GetBody(s, q, starts)
      [] q.op = "delete"  -> ClearBody(s, q, starts)

\* Mutant of Enter: the readiness wait left out.
EnterNoWait(s, q, starts) == Proceed(s, q, starts)

\* if (!dbInitialized) await new Promise(...checkInit...): the head of
\* saveCommand, getCommands and clearCommands.
Enter(s, q, starts) ==
    IF ~dbInitialized
    THEN /\ SetReq(s, [q EXCEPT !.pc = "wait"], starts, FALSE)
         /\ UNCHANGED <<sent, storeVars, histVars>>
    ELSE Proceed(s, q, starts)

\* checkInit, run every 100 ms, finds dbInitialized set and resolves.
WaitReady(s) ==
    /\ req[s].pc = "wait"
    /\ dbInitialized
    /\ Proceed(s, req[s], FALSE)
    /\ UNCHANGED <<dbInitialized, connectPc, now, nevents, nreq>>


\* --------------------------------------------------- POST /api/execute
\* The handler up to await CommandProcessor.processCommand(text, userAgent).
PostExecute(s, text, type, header) ==
    /\ Free(s)
    /\ nreq < MaxReq
    /\ nreq' = nreq + 1
    /\ LET q == [Idle EXCEPT !.op = "execute", !.text = text, !.type = type,
                             !.userAgent = IF Truthy(header) THEN header.s ELSE "",
                             !.rid = nreq + 1]
       IN  IF ~Truthy(text) \/ ~Truthy(type)
           THEN Reply(s, Answer(q, 400, [error |-> "Missing required fields: text, type"],
                                <<>>, "none"), FALSE, FALSE)
           ELSE SetReq(s, [q EXCEPT !.pc = "process"], FALSE, FALSE) /\ UNCHANGED sent
    /\ UNCHANGED <<dbInitialized, storeVars, connectPc, now, nevents, histVars>>

\* processCommand has settled: a throw goes to the handler's catch (500), a
\* result to saveCommand({text, type, status, response, userAgent}).
ProcessReturn(s) ==
    /\ req[s].pc = "process"
    /\ \E r \in Outcomes[req[s].text] :
         IF r.threw
         THEN /\ Reply(s, Answer(req[s], 500, [error |-> "Internal server error"],
                                 <<>>, "none"), FALSE, FALSE)
              /\ UNCHANGED <<storeVars, histVars>>
         ELSE Enter(s, [req[s] EXCEPT !.result = r, !.solo = ~OthersInFlight(s)], TRUE)
    /\ UNCHANGED <<dbInitialized, connectPc, now, nevents, nreq>>

\* Mutant of SaveResolve: the write replaces the documents of the collection
\* instead of adding one.
SaveResolveReplaces(s) ==
    /\ req[s].pc = "await"
    /\ req[s].op = "execute"
    /\ Validates(req[s].doc)
    /\ LET doc == req[s].doc
           body == [id |-> doc.id, response |-> req[s].result.response,
                    status |-> req[s].result.status, timestamp |-> doc.timestamp]
       IN  /\ collection' = {doc}
           /\ Reply(s, Answer(req[s], 200, body, <<>>, "mongo"), FALSE, TRUE)
           /\ lastSave' = [rid |-> doc.rid, text |-> doc.text, status |-> doc.status,
                           response |-> doc.response, where |-> "mongo",
                           newest |-> \A d \in collection : d.timestamp < doc.timestamp]
           /\ savedDone' = savedDone \cup {doc.rid}
           /\ row' = <<>>
    /\ UNCHANGED <<dbInitialized, mongoConnected, inMemoryCommands, connectPc, now,
                   nevents, nreq, cleared>>

\* await command.save() resolved: the document is in the collection;
\* return command, then res.json.
SaveResolve(s) ==
    /\ req[s].pc = "await"
    /\ req[s].op = "execute"
    /\ Validates(req[s].doc)
    /\ LET doc == req[s].doc
           body == [id |-> doc.id, response |-> req[s].result.response,
                    status |-> req[s].result.status, timestamp |-> doc.timestamp]
       IN  /\ collection' = collection \cup {doc}
           /\ Reply(s, Answer(req[s], 200, body, <<>>, "mongo"), FALSE, TRUE)
           /\ lastSave' = [rid |-> doc.rid, text |-> doc.text, status |-> doc.status,
                           response |-> doc.response, where |-> "mongo",
                           newest |-> \A d \in collection : d.timestamp < doc.timestamp]
           /\ savedDone' = savedDone \cup {doc.rid}
           /\ row' = <<>>
    /\ UNCHANGED <<dbInitialized, mongoConnected, inMemoryCommands, connectPc, now,
                   nevents, nreq, cleared>>

\* Mutant of SaveReject: the catch block does not clear mongoConnected.
SaveRejectKeepsFlag(s) ==
    /\ req[s].pc = "await"
    /\ req[s].op = "execute"
    /\ MemorySave(s, req[s], FALSE, "fallback")
    /\ UNCHANGED <<dbInitialized, mongoConnected, connectPc, now, nevents, nreq>>

\* await command.save() rejected (a validation error or a store failure):
\* the catch block sets mongoConnected = false and falls through to the
\* in-memory path.
SaveReject(s) ==
    /\ req[s].pc = "await"
    /\ req[s].op = "execute"
    /\ mongoConnected' = FALSE
    /\ MemorySave(s, req[s], FALSE, "fallback")
    /\ UNCHANGED <<dbInitialized, connectPc, now, nevents, nreq>>

\* ----------------------------------------------------- GET /api/history
GetHistory(s, query) ==
    /\ Free(s)
    /\ nreq < MaxReq
    /\ nreq' = nreq + 1
    /\ Enter(s, [Idle EXCEPT !.op = "history", !.query = query, !.limit = LimitOf(query),
                             !.rid = nreq + 1, !.expect = lastSave, !.banned = cleared,
                             !.solo = ~OthersInFlight(s)], TRUE)
    /\ UNCHANGED <<dbInitialized, connectPc, now, nevents>>

\* await Command.find().sort().limit().select() resolved.
FindResolve(s) ==
    /\ req[s].pc = "await"
    /\ req[s].op = "history"
    /\ \E l \in FindSorted(collection, req[s].limit) :
         /\ Reply(s, Answer(req[s], 200, NoBody, l, "mongo"), FALSE, FALSE)
         /\ row' = RowPush(req[s], IF Len(l) = 0 THEN "list-empty" ELSE "list-some")
    /\ UNCHANGED <<dbInitialized, storeVars, connectPc, now, nevents, nreq,
                   lastSave, savedDone, cleared>>

\* Mutant of FindReject: no catch block in getCommands, the rejection goes
\* to the handler's catch.
FindRejectRaises(s) ==
    /\ req[s].pc = "await"
    /\ req[s].op = "history"
    /\ Reply(s, Answer(req[s], 500, [error |-> "Failed to fetch history"], <<>>, "none"),
             FALSE, FALSE)
    /\ UNCHANGED <<dbInitialized, storeVars, connectPc, now, nevents, nreq, histVars>>

\* The query rejected: mongoConnected = false, then the in-memory slice.
FindReject(s) ==
    /\ req[s].pc = "await"
    /\ req[s].op = "history"
    /\ mongoConnected' = FALSE
    /\ ListFromMemory(s, req[s], FALSE, "fallback")
    /\ UNCHANGED <<dbInitialized, inMemoryCommands, collection, connectPc, now,
                   nevents, nreq>>

\* -------------------------------------------------- DELETE /api/history
DeleteHistory(s) ==
    /\ Free(s)
    /\ nreq < MaxReq
    /\ nreq' = nreq + 1
    /\ Enter(s, [Idle EXCEPT !.op = "delete", !.rid = nreq + 1, !.pre = savedDone,
                             !.solo = ~OthersInFlight(s)], TRUE)
    /\ UNCHANGED <<dbInitialized, connectPc, now, nevents>>

\* await Command.deleteMany({}) resolved; return, then res.json({message}).
DeleteResolve(s) ==
    /\ req[s].pc = "await"
    /\ req[s].op = "delete"
    /\ collection' = {}
    /\ Reply(s, Answer(req[s], 200, [message |-> "History cleared successfully"],
                        <<>>, "mongo"), FALSE, TRUE)
    /\ lastSave' = NoSave
    /\ cleared' = cleared \cup req[s].pre
    /\ row' = RowPush(req[s], "clear")
    /\ UNCHANGED <<dbInitialized, mongoConnected, inMemoryCommands, connectPc, now,
                   nevents, nreq, savedDone>>

\* deleteMany rejected: mongoConnected = false, then inMemoryCommands = [].
DeleteReject(s) ==
    /\ req[s].pc = "await"
    /\ req[s].op = "delete"
    /\ mongoConnected' = FALSE
    /\ ClearMemory(s, req[s], FALSE, "fallback")
    /\ UNCHANGED <<dbInitialized, connectPc, now, nevents, nreq>>

\* ----------------------------------------------------------- the program
Next ==
    \/ ConnectResolve
    \/ ConnectReject
    \/ InitDone
    \/ OnError
    \/ OnConnected
    \/ Tick
    \/ \E s \in Slots, text \in TextInputs, type \in TypeInputs, header \in UserAgentHeaders :
         PostExecute(s, text, type, header)
    \/ \E s \in Slots : ProcessReturn(s)
    \/ \E s \in Slots : WaitReady(s)
    \/ \E s \in Slots : SaveResolve(s)
    \/ \E s \in Slots : SaveReject(s)
    \/ \E s \in Slots, query \in LimitQueries : GetHistory(s, query)
    \/ \E s \in Slots : FindResolve(s)
    \/ \E s \in Slots : FindReject(s)
    \/ \E s \in Slots : DeleteHistory(s)
    \/ \E s \in Slots : DeleteResolve(s)
    \/ \E s \in Slots : DeleteReject(s)

Spec == Init /\ [][Next]_vars


\* ================================================================= claims
IsList == sent.op = "history" /\ sent.http = 200
ListRids == {sent.list[i].rid : i \in 1..Len(sent.list)}
Copies(r) ==
    Cardinality({d \in collection : d.rid = r})
    + Cardinality({i \in 1..Len(inMemoryCommands) : inMemoryCommands[i].rid = r})

\* C1, as claimed: whatever happens to mongoConnected in between, the list
\* that follows a completed save (no other save or clear in between, limit
\* >= 1) returns the saved record first, with its text, status and response.
C1_RoundTripEveryState ==
    (IsList /\ sent.expect.rid # 0 /\ sent.limit >= 1) =>
        /\ Len(sent.list) >= 1
        /\ sent.list[1].rid = sent.expect.rid
        /\ sent.list[1].text = sent.expect.text
        /\ sent.list[1].status = sent.expect.status
        /\ sent.list[1].response = sent.expect.response

\* C2: a save that returns has put its record in exactly one of the
\* collection and the buffer; when its write to the collection failed, the
\* same step has set mongoConnected to false and put the record at the head
\* of the buffer.
C2_NoWriteLost ==
    [][\A r \in 1..MaxReq :
         (r \notin savedDone /\ r \in savedDone') =>
            /\ Cardinality({d \in collection' : d.rid = r})
               + Cardinality({i \in 1..Len(inMemoryCommands') :
                                 inMemoryCommands'[i].rid = r}) = 1
            /\ (\E s \in Slots : req[s].rid = r /\ req[s].pc = "await"
                                 /\ ~\E d \in collection' : d.rid = r) =>
                  /\ mongoConnected' = FALSE
                  /\ Len(inMemoryCommands') >= 1
                  /\ inMemoryCommands'[1].rid = r]_vars

\* A save whose write failed has answered, and its record heads the buffer.
C2_Witness ==
    /\ sent.op = "execute"
    /\ sent.via = "fallback"
    /\ ~mongoConnected
    /\ Len(inMemoryCommands) >= 2
    /\ inMemoryCommands[1].rid = sent.rid
    /\ Copies(sent.rid) = 1

\* The ids of the model's requests among the records of each store.
BufferRids == {inMemoryCommands[i].rid : i \in 1..Len(inMemoryCommands)}
CollectionRids == {d.rid : d \in collection}

\* mongoConnected is true again after a demotion: the first connection
\* succeeded, so only a demotion can have put records into the buffer, and
\* only a 'connected' event can have set the flag since.
Regained == connectPc = "up" /\ mongoConnected /\ inMemoryCommands # <<>>

\* C11, amended: a 'connected' event sets mongoConnected and leaves both
\* stores as they are; a save whose write to the collection succeeds adds
\* its record to the collection only and leaves the buffer unchanged; no
\* record that is or was in the buffer is ever in the collection (a record
\* enters the collection only as its own save returns).
C11_RegainNoMigration ==
    /\ [](BufferRids \cap CollectionRids = {})
    /\ [][/\ (nevents' = nevents + 1 /\ mongoConnected') =>
               (inMemoryCommands' = inMemoryCommands /\ collection' = collection)
          /\ \A d \in collection' \ collection :
               /\ d.rid \notin savedDone
               /\ d.rid \in savedDone'
               /\ d.rid \notin BufferRids
               /\ inMemoryCommands' = inMemoryCommands]_vars

\* C11, as claimed: once the flag is regained, every save that returns has
\* written to the collection only and left the buffer unchanged.
C11_LaterSavesPersistentOnly ==
    /\ C11_RegainNoMigration
    /\ [][(Regained /\ savedDone' # savedDone) =>
              /\ inMemoryCommands' = inMemoryCommands
              /\ \E d \in collection' \ collection : d.rid \in savedDone']_vars

\* After a regain a save has answered from the collection while the buffer
\* still holds the records of the degraded window, all of them older.
C11_Witness ==
    /\ Regained
    /\ sent.op = "execute"
    /\ sent.via = "mongo"
    /\ sent.rid \in CollectionRids
    /\ \A r \in BufferRids : r < sent.rid

\* C18, as claimed: no two records of the history, in the collection or in
\* the buffer, have the same id.
C18_UniqueIds ==
    /\ \A i, j \in 1..Len(inMemoryCommands) :
          i # j => inMemoryCommands[i].id # inMemoryCommands[j].id
    /\ \A d, e \in collection : d # e => d.id # e.id
    /\ \A d \in collection : \A i \in 1..Len(inMemoryCommands) : d.id # inMemoryCommands[i].id

\* C19, as claimed: the type of every record of the history is 'voice' or
\* 'text'.
C19_SourceEnum ==
    /\ \A d \in collection : d.type \in {"voice", "text"}
    /\ \A i \in 1..Len(inMemoryCommands) :
          inMemoryCommands[i].type \in {JStr("voice"), JStr("text")}

\* A step in which a POST /api/execute that passed the 400 check is answered,
\* and the records request r has in the two stores after the step.
ExecuteAnswered == sent' # sent /\ sent'.op = "execute" /\ sent'.http # 400
RecordsAfter(r) ==
    {d \in collection' : d.rid = r}
    \cup {inMemoryCommands'[i] : i \in {j \in 1..Len(inMemoryCommands') :
                                            inMemoryCommands'[j].rid = r}}

\* C21, as claimed: a record enters a store only with the status and
\* response of an outcome processCommand has produced for its text, and as
\* an accepted POST /api/execute is answered its save has returned and the
\* stores hold exactly one record of it, carrying the status and response of
\* its outcome.
C21_PipelineOrder ==
    [][/\ \A r \in savedDone' \ savedDone :
            \A d \in RecordsAfter(r) :
                \E o \in Outcomes[JStr(d.text)] :
                    ~o.threw /\ o.status = d.status /\ o.response = d.response
       /\ ExecuteAnswered =>
            /\ sent.rid # sent'.rid
            /\ sent'.rid \in savedDone' \ savedDone
            /\ Cardinality(RecordsAfter(sent'.rid)) = 1
            /\ \A d \in RecordsAfter(sent'.rid) :
                  /\ d.status = sent'.result.status
                  /\ d.response = sent'.result.response]_vars

\* C3, as claimed: a list that starts after a clear has returned holds no
\* record saved before that clear.
C3_ClearClearsAll ==
    IsList => ListRids \cap sent.banned = {}

\* C4, as claimed: of clear, list, clear, list made back to back (no other
\* call overlapping or in between, no connection event), both lists are
\* empty and the clears answer 200.
C4_ClearIdempotent ==
    /\ \A i \in 1..Len(row) : row[i] # "list-some"
    /\ sent.op = "delete" => sent.http = 200

\* C5, as claimed: no record in the body of GET /api/history has a
\* userAgent field.
C5_NoUserAgent ==
    IsList => \A i \in 1..Len(sent.list) : "userAgent" \notin DOMAIN sent.list[i]

\* C8: in a step taken while dbInitialized is false no storage function
\* gets past its wait: the collection and the buffer stay as they are, no
\* request goes on to a store operation, and no answer comes from storage.
C8_ReadinessBarrier ==
    [][~dbInitialized =>
         /\ inMemoryCommands' = inMemoryCommands
         /\ collection' = collection
         /\ \A s \in Slots : req'[s].pc \in {"idle", "process", "wait"}
         /\ sent'.rid # sent.rid => sent'.via = "none"]_vars

\* Every slot holds a storage call suspended on the barrier.
C8_Witness ==
    /\ ~dbInitialized
    /\ \A s \in Slots : req[s].pc = "wait"
    /\ \E s \in Slots : req[s].op = "execute"

\* C10: every request that reached the storage layer is answered 200,
\* whether its store operation failed or not, and POST /api/execute answers
\* with the status and response processCommand returned.
C10_FailureNotSurfaced ==
    (sent.http # 0 /\ (sent.via # "none" \/ sent.op \in {"history", "delete"})) =>
        /\ sent.http = 200
        /\ sent.op = "execute" =>
              /\ sent.body.status = sent.result.status
              /\ sent.body.response = sent.result.response

\* A valid command whose write the store failed was answered 200.
C10_Witness ==
    /\ sent.op = "execute"
    /\ sent.via = "fallback"
    /\ sent.http = 200
    /\ sent.result.response # ""
    /\ inMemoryCommands # <<>>
    /\ inMemoryCommands[1].rid = sent.rid
    /\ inMemoryCommands[1].type = JStr("voice")


\* ------------------------------------------ a server with a long history
\* The collection holds documents of earlier runs, and the buffer the
\* records of BufferCap - 1 saves made while the store was unreachable; the
\* store is reachable again, and the connection events the model delivers
\* are spent on that. Timestamps before the epoch are negative; the history
\* variables start afresh.
OldRecord(i) ==
    [id        |-> [fmt |-> "decimal", digits |-> ToString(0 - i)],
     text      |-> "what time is it",
     type      |-> JStr("voice"),
     status    |-> "success",
     response  |-> "Current time: ...",
     userAgent |-> "Mozilla/5.0",
     timestamp |-> 0 - i,
     rid       |-> 0 - i]

OldDocument(j) ==
    [id        |-> [fmt |-> "objectid", digits |-> ToString(0 - (BufferCap + j))],
     text      |-> "what time is it",
     type      |-> "voice",
     timestamp |-> 0 - (BufferCap + j),
     status    |-> "success",
     response  |-> "Current time: ...",
     platform  |-> Platform,
     userAgent |-> "Mozilla/5.0",
     v         |-> 0,
     rid       |-> 0 - (BufferCap + j)]

OldMemory == [i \in 1..(BufferCap - 1) |-> OldRecord(i)]
OldCollection == {OldDocument(j) : j \in 1..(DefaultLimit + 1)}

InitFull ==
    /\ dbInitialized = TRUE
    /\ mongoConnected = TRUE
    /\ inMemoryCommands = OldMemory
    /\ collection = OldCollection
    /\ connectPc = "up"
    /\ now = 1
    /\ req = [s \in Slots |-> Idle]
    /\ nreq = 0
    /\ nevents = MaxEvents
    /\ sent = NoAnswer
    /\ lastSave = NoSave
    /\ savedDone = {}
    /\ cleared = {}
    /\ row = <<>>

\* The steps of a server that is past its start.
NextFull ==
    \/ Tick
    \/ \E s \in Slots, text \in TextInputs, type \in TypeInputs, header \in UserAgentHeaders :
         PostExecute(s, text, type, header)
    \/ \E s \in Slots : ProcessReturn(s)
    \/ \E s \in Slots : SaveResolve(s)
    \/ \E s \in Slots : SaveReject(s)
    \/ \E s \in Slots, query \in LimitQueries : GetHistory(s, query)
    \/ \E s \in Slots : FindResolve(s)
    \/ \E s \in Slots : FindReject(s)
    \/ \E s \in Slots : DeleteHistory(s)
    \/ \E s \in Slots : DeleteResolve(s)
    \/ \E s \in Slots : DeleteReject(s)

SpecFull == InitFull /\ [][NextFull]_vars

C7_BufferBound ==
    /\ [](Len(inMemoryCommands) <= 100)
    /\ [][(Len(inMemoryCommands) = 100 /\ savedDone' # savedDone
           /\ inMemoryCommands' # inMemoryCommands) =>
            /\ Len(inMemoryCommands') = 100
            /\ inMemoryCommands'[1].rid \in savedDone' \ savedDone
            /\ \A i \in 1..99 : inMemoryCommands'[i + 1] = inMemoryCommands[i]]_vars

\* The buffer is full and the oldest record of the start is gone.
C7_Witness ==
    /\ Len(inMemoryCommands) = 100
    /\ \A i \in 1..Len(inMemoryCommands) : inMemoryCommands[i].rid # 0 - (BufferCap - 1)
    /\ inMemoryCommands[100].rid = 0 - (BufferCap - 2)

\* The records of the buffer, and a step in which a DELETE /api/history is
\* answered (clearCommands has run).
BufferSet == {inMemoryCommands[i] : i \in 1..Len(inMemoryCommands)}
ClearReturns == sent'.op = "delete" /\ sent'.rid # sent.rid

\* C17, as claimed: in a step that completes no clear, every stored record
\* stays stored, unchanged.
C17_AppendOnly ==
    [][~ClearReturns =>
          /\ collection \subseteq collection'
          /\ BufferSet \subseteq BufferSet']_vars

\* C17, amended: in a step that completes no clear, every document of the
\* collection stays, unchanged, and every record of the buffer stays,
\* unchanged and in its order, except that a save into a buffer at capacity
\* drops the oldest record.
C17_AppendOnlyUntilEvicted ==
    [][~ClearReturns =>
          /\ collection \subseteq collection'
          /\ \/ inMemoryCommands' = inMemoryCommands
             \/ /\ Len(inMemoryCommands) < BufferCap
                /\ Tail(inMemoryCommands') = inMemoryCommands
             \/ /\ Len(inMemoryCommands) = BufferCap
                /\ Tail(inMemoryCommands') = SubSeq(inMemoryCommands, 1, BufferCap - 1)]_vars

\* A save has gone to the full buffer and another to the collection: the
\* oldest record is gone, every other record and document of the start is
\* still there.
C17_Witness ==
    /\ Len(inMemoryCommands) = BufferCap
    /\ OldMemory[BufferCap - 1] \notin BufferSet
    /\ \A i \in 1..(BufferCap - 2) : OldMemory[i] \in BufferSet
    /\ OldCollection \subseteq collection
    /\ collection # OldCollection

\* C23: a save whose write to the collection fails right after the answer
\* to another save whose write failed (the two were awaiting command.save()
\* together, or a regain lies between them) leaves mongoConnected false, the
\* two records at the head of the buffer, each once and in no other place,
\* and the buffer within its capacity.
C23_ConcurrentDemotion ==
    [][\A s \in Slots :
         (/\ req[s].pc = "await" /\ req[s].op = "execute"
          /\ sent.op = "execute" /\ sent.via = "fallback"
          /\ sent'.rid = req[s].rid /\ sent'.via = "fallback") =>
            /\ mongoConnected' = FALSE
            /\ Len(inMemoryCommands') <= BufferCap
            /\ Len(inMemoryCommands') >= 2
            /\ inMemoryCommands'[1].rid = sent'.rid
            /\ inMemoryCommands'[2].rid = sent.rid
            /\ \A r \in {sent.rid, sent'.rid} :
                  /\ Cardinality({i \in 1..Len(inMemoryCommands') :
                                      inMemoryCommands'[i].rid = r}) = 1
                  /\ ~\E d \in collection' : d.rid = r]_vars

\* The only two requests made were saves awaiting command.save() together;
\* both writes failed: the flag is down, their records head the buffer, and
\* the buffer is at its capacity.
C23_Witness ==
    /\ nreq = 2
    /\ sent.op = "execute" /\ sent.via = "fallback"
    /\ ~mongoConnected
    /\ Len(inMemoryCommands) = BufferCap
    /\ inMemoryCommands[1].rid = sent.rid
    /\ inMemoryCommands[2].rid \in (1..MaxReq) \ {sent.rid}
    /\ \A r \in 1..2 : Copies(r) = 1
    /\ \A s \in Slots : req[s].pc = "idle"

\* ------------------------------------------------- a store that stays up
\* await command.save() rejected by the schema's validators, which run
\* before anything is sent to the store: the same catch block.
SaveInvalid(s) ==
    /\ req[s].pc = "await"
    /\ req[s].op = "execute"
    /\ ~Validates(req[s].doc)
    /\ SaveReject(s)

\* The steps of a server whose store connected at the start and stays
\* reachable: no 'error' event, and every operation the store receives
\* succeeds.
NextUp ==
    \/ Tick
    \/ \E s \in Slots, text \in TextInputs, type \in TypeInputs, header \in UserAgentHeaders :
         PostExecute(s, text, type, header)
    \/ \E s \in Slots : ProcessReturn(s)
    \/ \E s \in Slots : SaveResolve(s)
    \/ \E s \in Slots : SaveInvalid(s)
    \/ \E s \in Slots, query \in LimitQueries : GetHistory(s, query)
    \/ \E s \in Slots : FindResolve(s)
    \/ \E s \in Slots : DeleteHistory(s)
    \/ \E s \in Slots : DeleteResolve(s)

SpecUp == InitFull /\ [][NextUp]_vars

\* C24, as claimed: while the store stays reachable mongoConnected stays
\* true, whatever the records saved.
C24_DemotionOnlyWhenUnavailable == mongoConnected

\* ------------------------------------------------------------- scheduling
\* What Node's event loop and the driver's timeouts give: the connection
\* attempt settles (serverSelectionTimeoutMS, connectTimeoutMS), a promise
\* callback or a 100 ms timer that is due runs, processCommand settles, and
\* a store operation is answered or fails.
Fairness ==
    /\ WF_vars(ConnectResolve \/ ConnectReject)
    /\ WF_vars(InitDone)
    /\ \A s \in Slots :
         /\ WF_vars(ProcessReturn(s))
         /\ WF_vars(WaitReady(s))
         /\ WF_vars(SaveResolve(s) \/ SaveReject(s))
         /\ WF_vars(FindResolve(s) \/ FindReject(s))
         /\ WF_vars(DeleteResolve(s) \/ DeleteReject(s))

\* The barrier does not read the clock: the liveness runs start at the
\* clock's last millisecond and take every step but Tick.
InitLive ==
    /\ dbInitialized = FALSE
    /\ mongoConnected = FALSE
    /\ inMemoryCommands = <<>>
    /\ collection = {}
    /\ connectPc = "connecting"
    /\ now = MaxClock
    /\ req = [s \in Slots |-> Idle]
    /\ nreq = 0
    /\ nevents = 0
    /\ sent = NoAnswer
    /\ lastSave = NoSave
    /\ savedDone = {}
    /\ cleared = {}
    /\ row = <<>>

NextLive ==
    \/ ConnectResolve
    \/ ConnectReject
    \/ InitDone
    \/ OnError
    \/ OnConnected
    \/ \E s \in Slots, text \in TextInputs, type \in TypeInputs, header \in UserAgentHeaders :
         PostExecute(s, text, type, header)
    \/ \E s \in Slots : ProcessReturn(s)
    \/ \E s \in Slots : WaitReady(s)
    \/ \E s \in Slots : SaveResolve(s)
    \/ \E s \in Slots : SaveReject(s)
    \/ \E s \in Slots, query \in LimitQueries : GetHistory(s, query)
    \/ \E s \in Slots : FindResolve(s)
    \/ \E s \in Slots : FindReject(s)
    \/ \E s \in Slots : DeleteHistory(s)
    \/ \E s \in Slots : DeleteResolve(s)
    \/ \E s \in Slots : DeleteReject(s)

LiveSpec == InitLive /\ [][NextLive]_vars /\ Fairness

Suspended(r) == \E s \in Slots : req[s].rid = r /\ req[s].pc = "wait"
Answered(r) == r <= nreq /\ \A s \in Slots : req[s].rid # r

\* C9: the connection attempt settles and dbInitialized becomes true, it
\* never goes back to false, and every call suspended on the barrier is
\* released and its request answered.
C9_BarrierReleases ==
    /\ <>(dbInitialized /\ connectPc \in {"up", "down"})
    /\ [][dbInitialized => dbInitialized']_vars
    /\ \A r \in 1..MaxReq : Suspended(r) ~> Answered(r)

\* A call that waited on the barrier while the connection attempt failed has
\* been answered from the buffer.
C9_Witness ==
    /\ dbInitialized
    /\ connectPc = "down"
    /\ sent.op = "execute"
    /\ sent.via = "memory"
    /\ Answered(sent.rid)
    /\ Len(inMemoryCommands) = 1
    /\ nreq = 1

\* ============================================== the command processor alone
\* One POST /api/execute on a server past its start, its text drawn from
\* CommandTexts: processCommand, then saveCommand, then the response.
InitCmd ==
    /\ dbInitialized = TRUE
    /\ mongoConnected = TRUE
    /\ inMemoryCommands = <<>>
    /\ collection = {}
    /\ connectPc = "up"
    /\ now = 1
    /\ req = [s \in Slots |-> Idle]
    /\ nreq = MaxReq - 1
    /\ nevents = MaxEvents
    /\ sent = NoAnswer
    /\ lastSave = NoSave
    /\ savedDone = {}
    /\ cleared = {}
    /\ row = <<>>

NextCmd ==
    \/ \E s \in Slots, text \in CommandTexts, type \in SourceInputs,
          header \in UserAgentHeaders :
         PostExecute(s, text, type, header)
    \/ \E s \in Slots : ProcessReturn(s)
    \/ \E s \in Slots : SaveResolve(s)
    \/ \E s \in Slots : SaveReject(s)

SpecCmd == InitCmd /\ [][NextCmd]_vars

\* The answer to the POST /api/execute, the record its saveCommand stored,
\* and the text of that record as processCommand matched it.
Executed == sent.op = "execute" /\ sent.http # 400
Returned == Executed /\ sent.http = 200
Stored ==
    {d \in collection : d.rid = sent.rid}
    \cup {inMemoryCommands[i] : i \in {j \in 1..Len(inMemoryCommands) :
                                         inMemoryCommands[j].rid = sent.rid}}
Cmds == {Trim(ToLowerCase(d.text)) : d \in Stored}

\* C12, as claimed: for every text POST /api/execute accepts, processCommand
\* returns an Outcome {status, response}: the handler goes on to saveCommand
\* and answers 200 with that Outcome, never 500.
C12_NeverRaises ==
    Executed =>
        /\ sent.http = 200
        /\ sent.result.status \in {"success", "error"}
        /\ sent.body.status = sent.result.status
        /\ sent.body.response = sent.result.response

\* C13: for a text that satisfies the condition of no rule, processCommand
\* returns status error and the guidance message, and has called no
\* executor and spawned no process.
SatisfiesNone(cmd) == \A k \in 1..Len(Rules) : ~Satisfies(Rules[k], cmd)
C13_Unrecognized ==
    Returned =>
        \A cmd \in Cmds :
            SatisfiesNone(cmd) =>
                /\ sent.result.status = "error"
                /\ sent.result.response = GuidanceMessage
                /\ sent.result.call = NoCall
                /\ sent.result.spawned = <<>>
                /\ sent.body.status = "error"
                /\ sent.body.response = GuidanceMessage

\* A text of blanks only, which no rule accepts, has been answered.
C13_Witness ==
    /\ Returned
    /\ Cmds = {""}
    /\ sent.result.response = GuidanceMessage

\* C14: for a text that satisfies the conditions of rules, the branch that
\* ran is that of the earliest of them in the order of the chain, and the
\* executor called, if any, is one that branch calls; a text with both
\* "shutdown" and "settings" opens the settings and shuts nothing down.
Earliest(cmd) == Rules[Least({k \in 1..Len(Rules) : Satisfies(Rules[k], cmd)})]
C14_FirstMatchWins ==
    Returned =>
        \A cmd \in Cmds :
            ~SatisfiesNone(cmd) =>
                /\ sent.result.rule = Earliest(cmd)
                /\ sent.result.call \in {NoCall, Handle(Earliest(cmd), cmd).call}
                /\ (Satisfies("settings", cmd) /\ Satisfies("shutdown", cmd)) =>
                       sent.result.call.fn # "systemShutdown"

\* "shutdown settings" has been answered by the settings rule.
C14_Witness ==
    /\ Returned
    /\ \E cmd \in Cmds : Satisfies("settings", cmd) /\ Satisfies("shutdown", cmd)
    /\ sent.result.rule = "settings"
    /\ sent.result.call = Call("openSettings", "main")

\* C15, as claimed: each example of the README's Available Commands runs the
\* action the README documents for it.
ReadmeAction ==
    [t \in ReadmeTexts |->
        CASE t \in {"open google.com", "open youtube.com"} -> "openWebsite"
          [] t \in {"search pizza recipes", "youtube funny cats", "weather"} -> "openWebsite"
          [] t \in {"what time is it", "what date is it"} -> ""
          [] t \in {"open calculator", "open notepad", "open file manager"} -> "openApplication"
          [] t = "shutdown in 5 minutes" -> "systemShutdown"
          [] t = "restart" -> "systemRestart"
          [] t = "sleep" -> "systemSleep"
          [] t \in {"volume up", "volume down", "mute"} -> "adjustVolume"]
C15_ReadmeDispatch ==
    Returned =>
        \A d \in Stored :
            d.text \in ReadmeTexts => sent.result.call.fn = ReadmeAction[d.text]

\* C16, as claimed: a failure of the executor is answered with the message
\* of its kind: exit code 127 with the application-not-found message, ENOENT
\* with the command-unavailable message, a permission failure with the
\* permission-denied message, any other with the generic message.
C16_FourMessages ==
    (Returned /\ sent.result.status = "error" /\ sent.result.host.kind \notin {"none", "ok"}) =>
        LET host == sent.result.host
        IN  sent.result.response =
               (IF host.code = "127" THEN NotFoundResponse
                ELSE IF host.code = "ENOENT" THEN UnavailableResponse
                ELSE IF Includes(ToLowerCase(host.text), "permission denied")
                THEN PermissionResponse
                ELSE Catch(ExecError(sent.result.spawned[1], host)))

\* C22: a text that reaches the shutdown rule calls systemShutdown with 60
\* seconds when it has no magnitude and unit, n for "n seconds" and 60 * n
\* for "n minutes", and on success the response names that number of
\* seconds.
ShutdownDuration ==
    [t \in {"shutdown", "shutdown now"} |-> 60]
    @@ ("shutdown in 5 minutes" :> 300) @@ ("shutdown in 30 seconds" :> 30)
    @@ ("shutdown in 1 minute" :> 60) @@ ("Shutdown in 2minutes" :> 120)
    @@ ("shutdown in 90 seconds" :> 90) @@ ("shutdown in 1 second" :> 1)
C22_ShutdownDuration ==
    Returned =>
        \A d \in Stored :
            d.text \in DOMAIN ShutdownDuration =>
                /\ sent.result.rule = "shutdown"
                /\ sent.result.call = Call("systemShutdown", ToString(ShutdownDuration[d.text]))
                /\ sent.result.status = "success" =>
                      /\ sent.result.response =
                            "System will shutdown in "
                                \o ToString(ShutdownDuration[d.text]) \o " seconds"
                      /\ d.response = sent.result.response

\* "shutdown in 5 minutes" has been answered: 300 seconds.
C22_Witness ==
    /\ Returned
    /\ \E d \in Stored : d.text = "shutdown in 5 minutes"
    /\ sent.result.call = Call("systemShutdown", "300")
    /\ sent.result.status = "success"
    /\ sent.result.response = "System will shutdown in 300 seconds"

\* C20, as claimed: the Outcome of every text has a non-empty response, so
\* the record handed to saveCommand has one.
C20_ResponseNonEmpty ==
    Returned =>
        /\ sent.result.response # ""
        /\ \A d \in Stored : d.response # ""

\* C25, as claimed: when the child of openWhatsAppCall or openWhatsAppMessage
\* fails, the web page is opened once, processCommand returns an Outcome,
\* and no failure of that open is left unhandled.
C25_WhatsAppFallback ==
    (/\ Returned
     /\ sent.result.call.fn \in {"openWhatsAppCall", "openWhatsAppMessage"}
     /\ sent.result.host.kind # "ok") =>
        /\ sent.result.spawned =
              <<ShellCommand(sent.result.call),
                ShellCommand(Call("openWebsite", "web.whatsapp.com"))>>
        /\ sent.result.status \in {"success", "error"}
        /\ sent.result.unhandled = NoError

\* C26, as claimed: an informational query whose child process was ended by
\* the 10 s timeout of executeCommand is answered with status error.
C26_InfoTimeoutIsError ==
    (/\ Returned
     /\ sent.result.call.fn \in DOMAIN LinuxInfo
     /\ sent.result.host = HostKilled) =>
        /\ sent.result.status = "error"
        /\ sent.body.status = "error"

====
